---- MODULE Spec2Model ----
(***************************************************************************)
(* Job and order controllers of the freelance-marketplace backend          *)
(* (src/src/Controllers/job.controller.js, order.controller.js), modelled  *)
(* over the tables they read and write through the ORM.  A handler is cut  *)
(* at its awaits on a write: everything up to the write (authentication,   *)
(* the reads, the checks) is one step, each write is a step of its own, so *)
(* that concurrent requests interleave as the event loop lets them.        *)
(*                                                                         *)
(* Conventions.  A nullable column is a set with at most one element       *)
(* ({} is null).  A request field that the code tests for truthiness is    *)
(* absent when it is 0 (ids) or "" (strings), both falsy in JavaScript.    *)
(* Time is counted in days from the instant an order is created (Now).     *)
(* Money is counted in cents, so that *1.5 and *0.5 of a price in whole    *)
(* currency units are exact.                                               *)
(***************************************************************************)
EXTENDS Integers, Sequences, FiniteSets, Bags, TLC

VARIABLES
    orders,         \* prisma.order: the order rows, the id of a row is its index
    jobs,           \* prisma.job: the job rows, by id
    applications,   \* prisma.application: the application rows, in creation order
    appliedJobsId,  \* prisma.user.appliedJobsId, per user id
    writes,         \* the updates of order and job rows done so far (bounds
                    \* the run)
    req,            \* the bag of handlers suspended at the await of a write
    resp            \* the request of the latest step and the response to it
                    \* (code 0 while its handler is suspended)

jobVars == <<jobs, applications, appliedJobsId>>
vars == <<orders, jobs, applications, appliedJobsId, writes, req, resp>>

----------------------------------------------------------------------------
(* Bounds of the model *)

\* orders that can be created
MaxOrders == 1
\* requests that can be in flight at once
MaxInFlight == 2
\* updates of order and job rows in one run
MaxWrites == 3
\* application rows that can be created
MaxApplications == 3
\* jobs that can be posted
MaxJobs == 1

----------------------------------------------------------------------------
(* The fixed population: users, freelancer profiles, gigs *)

Null == {}
Some(x) == {x}

\* req.user as the authenticator leaves it; Anonymous is a request with no
\* req.user, its id 0 no identity (falsy)
Anonymous == [id |-> 0, role |-> "NONE"]
\* user 1 is a client; user 2 is the freelancer behind profile 3, the owner
\* of the gigs; user 3 is a freelancer (profile 4) with no part in them
Users ==
    { [id |-> 1, role |-> "CLIENT"],
      [id |-> 2, role |-> "FREELANCER"],
      [id |-> 3, role |-> "FREELANCER"] }
Actors == Users \cup {Anonymous}

\* freelancerProfile rows: profile id -> userId
freelancerProfile == (3 :> 2) @@ (4 :> 3)

\* gig rows, read only; gig 3 does not exist.  pricing: package -> price
gigs ==
    (1 :> [status |-> "ACTIVE", freelancerId |-> 3, deliveryTime |-> 3,
           pricing |-> ("basic" :> 10000) @@ ("free" :> 0)]) @@
    (2 :> [status |-> "PAUSED", freelancerId |-> 3, deliveryTime |-> 3,
           pricing |-> ("basic" :> 10000)])
\* req.body.gigId (0: absent), selectedPackage ("": absent), isUrgent
GigIds == 0 .. 3
Packages == {"", "basic", "free", "gold"}
Urgency == {Null, Some(TRUE), Some(FALSE)}
\* req.params.orderId: the id the first order gets; no order has it until
\* that order is placed
OrderIds == {1}

Statuses ==
    {"PENDING", "ACCEPTED", "IN_PROGRESS", "DELIVERED", "DISPUTED",
     "COMPLETED", "CANCELLED"}
\* req.body.status ("": absent), extensionReason and cancellationReason
StatusInputs == Statuses \cup {""}
Reasons == {"", "reason"}

\* new Date(), and the 7 days of an extension
Now == 0
ExtensionDays == 7

\* JavaScript truthiness of a number and of a string
TruthyNum(x) == x # 0
TruthyStr(s) == s # ""

----------------------------------------------------------------------------
(* Responses and suspended handlers *)

NoResp == [op |-> "none", code |-> 0, args |-> <<>>]

\* the handler of the request suspends: no response yet
Pending(op, args) == resp' = [op |-> op, code |-> 0, args |-> args]

\* a request is taken while a handler is free and the run has updates left
\* for it and for the suspended handlers
Admit ==
    /\ BagCardinality(req) < MaxInFlight
    /\ writes + BagCardinality(req) < MaxWrites

\* a handler suspends at an await, and resumes from it
Suspend(h) == req' = req (+) SetToBag({h})
Resume(h) == req' = req (-) SetToBag({h})
Suspended == BagToSet(req)

\* next(new ApiError(code, ...)) or res.status(code).json(...)
Respond(op, code, args) ==
    resp' = [op |-> op, code |-> code, args |-> args]

----------------------------------------------------------------------------
(* order.controller.js *)

\* the premium charged whenever isUrgent is sent, whatever its value
TotalPriceWhenSent(pricing, isUrgent) ==
    IF isUrgent # Null THEN (pricing * 15) \div 10 ELSE pricing

\* pricing * 1.5 and pricing * 0.5, on cents
TotalPrice(pricing, isUrgent) ==
    IF isUrgent = Some(TRUE) THEN (pricing * 15) \div 10 ELSE pricing
PriorityFee(pricing, isUrgent) ==
    IF isUrgent = Some(TRUE) THEN Some((pricing * 5) \div 10) ELSE Null

\* gig.pricing[selectedPackage]: undefined (0 here, as falsy) off the table
Pricing(gig, selectedPackage) ==
    IF selectedPackage \in DOMAIN gig.pricing
    THEN gig.pricing[selectedPackage] ELSE 0

NewOrder(gigId, clientId, selectedPackage, isUrgent) ==
    LET gig == gigs[gigId]
        pricing == Pricing(gig, selectedPackage)
    IN  [ gigId |-> gigId,
          clientId |-> clientId,
          freelancerId |-> gig.freelancerId,
          package |-> selectedPackage,
          totalPrice |-> TotalPrice(pricing, isUrgent),
          isUrgent |-> (isUrgent = Some(TRUE)),
          priorityFee |-> PriorityFee(pricing, isUrgent),
          deliveryDeadline |-> Now + gig.deliveryTime,
          status |-> "PENDING",
          statusHistory |-> << [status |-> "PENDING", changedBy |-> Null] >>,
          cancellationReason |-> Null,
          cancellationDate |-> Null,
          completedAt |-> Null,
          deliveryExtensions |-> 0,
          extensionReason |-> Null ]

createOrder(user, gigId, selectedPackage, isUrgent) ==
    LET args == [userId |-> user.id, gigId |-> gigId,
                 selectedPackage |-> selectedPackage, isUrgent |-> isUrgent]
    IN  /\ UNCHANGED <<jobVars, req>>
        /\ IF ~TruthyNum(user.id)
           THEN Respond("createOrder", 401, args) /\ UNCHANGED <<orders, writes>>
           ELSE IF ~TruthyNum(gigId) \/ ~TruthyStr(selectedPackage)
           THEN Respond("createOrder", 400, args) /\ UNCHANGED <<orders, writes>>
           ELSE IF gigId \notin DOMAIN gigs \/ gigs[gigId].status # "ACTIVE"
           THEN Respond("createOrder", 404, args) /\ UNCHANGED <<orders, writes>>
           ELSE IF ~TruthyNum(Pricing(gigs[gigId], selectedPackage))
           THEN Respond("createOrder", 400, args) /\ UNCHANGED <<orders, writes>>
           ELSE /\ Len(orders) < MaxOrders
                /\ UNCHANGED writes
                /\ orders' = Append(orders,
                       NewOrder(gigId, user.id, selectedPackage, isUrgent))
                /\ Respond("createOrder", 201, args)

validTransitions ==
    [ PENDING |-> {"ACCEPTED", "CANCELLED"},
      ACCEPTED |-> {"IN_PROGRESS", "CANCELLED"},
      IN_PROGRESS |-> {"DELIVERED", "CANCELLED"},
      DELIVERED |-> {"COMPLETED", "DISPUTED"},
      DISPUTED |-> {"COMPLETED", "CANCELLED"} ]

\* validTransitions[order.status]?.includes(status)
Includes(orderStatus, status) ==
    orderStatus \in DOMAIN validTransitions /\ status \in validTransitions[orderStatus]

\* the test without the exemption of COMPLETED orders
InvalidTransitionStrict(orderStatus, status) ==
    ~TruthyStr(status) \/ ~Includes(orderStatus, status)

\* the test that rejects a status change
InvalidTransition(orderStatus, status) ==
    ~TruthyStr(status) \/ (orderStatus # "COMPLETED" /\ ~Includes(orderStatus, status))

\* the profile id of the freelancer compared with the user id
IsFreelancerById(order, userId) == order.freelancerId = userId

\* order.clientId === userId, order.freelancer.userId === userId
IsClient(order, userId) == order.clientId = userId
IsFreelancer(order, userId) == freelancerProfile[order.freelancerId] = userId

\* a column keeps its value unless the update's data sets it
SetTo(old, new) == IF new = Null THEN old ELSE CHOOSE v \in new : TRUE

\* the update that overwrites the latest statusHistory entry
UpdateLatestEntry(row, data, changedBy) ==
    [row EXCEPT
        !.status = data.status,
        !.cancellationReason = IF data.cancellationReason = Null THEN @ ELSE data.cancellationReason,
        !.cancellationDate = IF data.cancellationDate = Null THEN @ ELSE data.cancellationDate,
        !.completedAt = IF data.completedAt = Null THEN @ ELSE data.completedAt,
        !.deliveryExtensions = @ + data.increment,
        !.extensionReason = IF data.extensionReason = Null THEN @ ELSE data.extensionReason,
        !.deliveryDeadline = SetTo(@, data.deliveryDeadline),
        !.statusHistory = [@ EXCEPT ![Len(@)] =
                               [status |-> data.status,
                                changedBy |-> Some(changedBy)]]]

\* prisma.order.update: the data merged into the row, with the nested
\* create of one statusHistory entry
Update(row, data, changedBy) ==
    [row EXCEPT
        !.status = data.status,
        !.cancellationReason = IF data.cancellationReason = Null THEN @ ELSE data.cancellationReason,
        !.cancellationDate = IF data.cancellationDate = Null THEN @ ELSE data.cancellationDate,
        !.completedAt = IF data.completedAt = Null THEN @ ELSE data.completedAt,
        !.deliveryExtensions = @ + data.increment,
        !.extensionReason = IF data.extensionReason = Null THEN @ ELSE data.extensionReason,
        !.deliveryDeadline = SetTo(@, data.deliveryDeadline),
        !.statusHistory = Append(@, [status |-> data.status,
                                     changedBy |-> Some(changedBy)])]

NoData(status) ==
    [status |-> status, cancellationReason |-> Null, cancellationDate |-> Null,
     completedAt |-> Null, increment |-> 0, extensionReason |-> Null,
     deliveryDeadline |-> Null]

\* req.body.cancellationReason || "Not specified"
ReasonOrDefault(cancellationReason) ==
    IF TruthyStr(cancellationReason) THEN cancellationReason ELSE "Not specified"

\* updateData when the extension is taken with any target status
UpdateDataExtending(order, status, extensionReason, cancellationReason) ==
    LET data ==
            IF status = "CANCELLED"
            THEN [NoData(status) EXCEPT
                     !.cancellationReason =
                         Some(ReasonOrDefault(cancellationReason)),
                     !.cancellationDate = Some(Now)]
            ELSE IF status = "COMPLETED"
            THEN [NoData(status) EXCEPT !.completedAt = Some(Now)]
            ELSE NoData(status)
    IN  IF TruthyStr(extensionReason)
        THEN [data EXCEPT
                 !.increment = 1,
                 !.extensionReason = Some(extensionReason),
                 !.deliveryDeadline =
                     Some(order.deliveryDeadline + ExtensionDays)]
        ELSE data

\* updateData of updateOrderStatus, from the row it read
UpdateData(order, status, extensionReason, cancellationReason) ==
    IF status = "CANCELLED"
    THEN [NoData(status) EXCEPT
             !.cancellationReason = Some(ReasonOrDefault(cancellationReason)),
             !.cancellationDate = Some(Now)]
    ELSE IF status = "COMPLETED"
    THEN [NoData(status) EXCEPT !.completedAt = Some(Now)]
    ELSE IF TruthyStr(extensionReason)
    THEN [NoData(status) EXCEPT
             !.increment = 1,
             !.extensionReason = Some(extensionReason),
             !.deliveryDeadline = Some(order.deliveryDeadline + ExtensionDays)]
    ELSE NoData(status)

\* updateOrderStatus up to its await on prisma.order.update
updateOrderStatus(user, orderId, status, extensionReason, cancellationReason) ==
    LET args == [userId |-> user.id, orderId |-> orderId, status |-> status]
    IN  /\ Admit
        /\ UNCHANGED <<orders, jobVars, writes>>
        /\ IF ~TruthyNum(user.id)
           THEN Respond("updateOrderStatus", 401, args) /\ UNCHANGED req
           ELSE IF orderId \notin 1 .. Len(orders)
           THEN Respond("updateOrderStatus", 404, args) /\ UNCHANGED req
           ELSE IF ~IsClient(orders[orderId], user.id) /\ ~IsFreelancer(orders[orderId], user.id)
           THEN Respond("updateOrderStatus", 403, args) /\ UNCHANGED req
           ELSE IF InvalidTransition(orders[orderId].status, status)
           THEN Respond("updateOrderStatus", 400, args) /\ UNCHANGED req
           ELSE /\ Suspend([op |-> "updateOrderStatus", userId |-> user.id,
                            orderId |-> orderId,
                            data |-> UpdateData(orders[orderId], status,
                                         extensionReason, cancellationReason)])
                /\ Pending("updateOrderStatus", args)

\* prisma.order.update of updateOrderStatus, and the response
updateOrderStatusWrite(h) ==
    /\ h.op = "updateOrderStatus"
    /\ writes' = writes + 1
    /\ orders' = [orders EXCEPT ![h.orderId] = Update(@, h.data, h.userId)]
    /\ Resume(h)
    /\ Respond("updateOrderStatus", 200,
               [userId |-> h.userId, orderId |-> h.orderId, status |-> h.data.status])
    /\ UNCHANGED jobVars

\* DELIVERED orders cancellable too
CancellableLate == {"PENDING", "ACCEPTED", "IN_PROGRESS", "DELIVERED"}

Cancellable == {"PENDING", "ACCEPTED", "IN_PROGRESS"}

\* the data with the reason stored as it was sent
CancelDataAsSent(cancellationReason) ==
    [NoData("CANCELLED") EXCEPT
        !.cancellationReason = Some(cancellationReason),
        !.cancellationDate = Some(Now)]

\* the data of cancelOrder's prisma.order.update
CancelData(cancellationReason) ==
    [NoData("CANCELLED") EXCEPT
        !.cancellationReason = Some(ReasonOrDefault(cancellationReason)),
        !.cancellationDate = Some(Now)]

\* cancelOrder up to its await on prisma.order.update
cancelOrder(user, orderId, cancellationReason) ==
    LET args == [userId |-> user.id, orderId |-> orderId,
                 cancellationReason |-> cancellationReason]
    IN  /\ Admit
        /\ UNCHANGED <<orders, jobVars, writes>>
        /\ IF ~TruthyNum(user.id)
           THEN Respond("cancelOrder", 401, args) /\ UNCHANGED req
           ELSE IF orderId \notin 1 .. Len(orders)
           THEN Respond("cancelOrder", 404, args) /\ UNCHANGED req
           ELSE IF ~IsClient(orders[orderId], user.id) /\ ~IsFreelancer(orders[orderId], user.id)
           THEN Respond("cancelOrder", 403, args) /\ UNCHANGED req
           ELSE IF orders[orderId].status \notin Cancellable
           THEN Respond("cancelOrder", 400, args) /\ UNCHANGED req
           ELSE /\ Suspend([op |-> "cancelOrder", userId |-> user.id,
                            orderId |-> orderId,
                            data |-> CancelData(cancellationReason)])
                /\ Pending("cancelOrder", args)

\* prisma.order.update of cancelOrder, and the response
cancelOrderWrite(h) ==
    /\ h.op = "cancelOrder"
    /\ writes' = writes + 1
    /\ orders' = [orders EXCEPT ![h.orderId] = Update(@, h.data, h.userId)]
    /\ Resume(h)
    /\ Respond("cancelOrder", 200, [userId |-> h.userId, orderId |-> h.orderId])
    /\ UNCHANGED jobVars

\* the order of user 1 for gig 1 once accepted, started and delivered by
\* its freelancer
DeliveredOrder ==
    LET o1 == NewOrder(1, 1, "basic", Null)
        o2 == Update(o1, UpdateData(o1, "ACCEPTED", "", ""), 2)
        o3 == Update(o2, UpdateData(o2, "IN_PROGRESS", "", ""), 2)
    IN  Update(o3, UpdateData(o3, "DELIVERED", "", ""), 2)

----------------------------------------------------------------------------
(* job.controller.js *)

\* user 4 carries the role FREELANCER and has no freelancer profile
JobActors == Actors \cup { [id |-> 4, role |-> "FREELANCER"] }
\* req.params.jobId; job 3 does not exist
JobIds == 1 .. 3

\* freelancer.freelancerProfile of the user row
HasProfile(userId) ==
    \E p \in DOMAIN freelancerProfile : freelancerProfile[p] = userId

\* the lookup with the two ids in each other's place
ExistingApplicationSwapped(freelancerId, jobId) ==
    \E i \in DOMAIN applications :
        /\ applications[i].freelancerId = jobId
        /\ applications[i].jobId = freelancerId

\* prisma.application.findFirst({ where: { freelancerId, jobId } })
ExistingApplication(freelancerId, jobId) ==
    \E i \in DOMAIN applications :
        /\ applications[i].freelancerId = freelancerId
        /\ applications[i].jobId = jobId

\* the handlers suspended before their prisma.application.create
Creating ==
    BagCardinality([h \in {k \in Suspended : k.op = "applyJob" /\ k.pc = "create"}
                       |-> CopiesIn(h, req)])

\* a request is taken while a handler is free and the run has room for the
\* application row it may create
AdmitApply ==
    /\ BagCardinality(req) < MaxInFlight
    /\ Len(applications) + Creating < MaxApplications

\* applyJob up to its await on prisma.application.create
applyJob(user, jobId) ==
    LET args == [userId |-> user.id, jobId |-> jobId]
    IN  /\ AdmitApply
        /\ UNCHANGED <<orders, jobVars, writes>>
        /\ IF ~TruthyNum(user.id)
           THEN Respond("applyJob", 401, args) /\ UNCHANGED req
           ELSE IF user.role # "FREELANCER"
           THEN Respond("applyJob", 403, args) /\ UNCHANGED req
           ELSE IF jobId \notin DOMAIN jobs
           THEN Respond("applyJob", 404, args) /\ UNCHANGED req
           ELSE IF ~HasProfile(user.id)
           THEN Respond("applyJob", 404, args) /\ UNCHANGED req
           ELSE IF ExistingApplication(user.id, jobId)
           THEN Respond("applyJob", 400, args) /\ UNCHANGED req
           ELSE /\ Suspend([op |-> "applyJob", pc |-> "create",
                            freelancerId |-> user.id, jobId |-> jobId])
                /\ Pending("applyJob", args)

\* prisma.application.create, up to the await on prisma.user.update
applyJobCreate(h) ==
    /\ h.op = "applyJob"
    /\ h.pc = "create"
    /\ applications' = Append(applications,
           [freelancerId |-> h.freelancerId, jobId |-> h.jobId])
    /\ req' = (req (-) SetToBag({h})) (+) SetToBag({[h EXCEPT !.pc = "push"]})
    /\ resp' = NoResp
    /\ UNCHANGED <<orders, jobs, appliedJobsId, writes>>

\* prisma.user.update pushing the job id, and the response
applyJobPush(h) ==
    /\ h.op = "applyJob"
    /\ h.pc = "push"
    /\ appliedJobsId' = [appliedJobsId EXCEPT ![h.freelancerId] = Append(@, h.jobId)]
    /\ Resume(h)
    /\ Respond("applyJob", 200, [userId |-> h.freelancerId, jobId |-> h.jobId])
    /\ UNCHANGED <<orders, jobs, applications, writes>>

\* the failure of the second write if the two writes were one transaction:
\* the Application row is taken back
applyJobPushUndone(h) ==
    /\ h.op = "applyJob"
    /\ h.pc = "push"
    /\ applications' = SelectSeq(applications,
           LAMBDA a : a # [freelancerId |-> h.freelancerId, jobId |-> h.jobId])
    /\ Resume(h)
    /\ Respond("applyJob", 500, [userId |-> h.freelancerId, jobId |-> h.jobId])
    /\ UNCHANGED <<orders, jobs, appliedJobsId, writes>>

\* prisma.user.update throws (the store fails): the catch answers 500, and
\* the Application row created before stays
applyJobPushFails(h) ==
    /\ h.op = "applyJob"
    /\ h.pc = "push"
    /\ Resume(h)
    /\ Respond("applyJob", 500, [userId |-> h.freelancerId, jobId |-> h.jobId])
    /\ UNCHANGED <<orders, jobs, applications, appliedJobsId, writes>>

\* a job row as createJob writes it: the poster, the title and the budget
\* range of the request, no proposals yet
NewJob(postedById, title, budgetMin, budgetMax) ==
    [postedById |-> postedById, title |-> title, budgetMin |-> budgetMin,
     budgetMax |-> budgetMax, proposals |-> 0]

\* the jobs the run starts with: job 1 posted by the client, job 2 by the
\* freelancer user 2
InitialJobs == (1 :> NewJob(1, "old", 10, 20)) @@ (2 :> NewJob(2, "old", 10, 20))

\* req.body.title ("": absent)
Titles == {"", "new"}

\* a budget field of req.body: undefined, a value parseFloat makes no number
\* of, or a number
Undefined == [kind |-> "undefined", val |-> 0]
NotANumber == [kind |-> "NaN", val |-> 0]
Num(n) == [kind |-> "number", val |-> n]
BudgetInputs == {Undefined, NotANumber} \cup {Num(n) : n \in {-1, 0, 5, 10, 30}}

\* the lookup that finds any job that exists
NotOwnedIfAbsent(job, userId) == job = Null

\* !job || job.postedById !== userId, job the row found ({}: none)
NotOwned(job, userId) ==
    job = Null \/ \E row \in job : row.postedById # userId

\* prisma.job.findUnique({ where: { id } })
FindJob(jobId) == IF jobId \in DOMAIN jobs THEN Some(jobs[jobId]) ELSE Null

\* isNaN(minBudget) || minBudget < 0
InvalidMin(budgetMin) == budgetMin.kind = "NaN" \/ budgetMin.val < 0

\* updateData.budgetMin || job.budgetMin
Floor(budgetMin, job) ==
    IF budgetMin.kind # "undefined" /\ TruthyNum(budgetMin.val)
    THEN budgetMin.val ELSE job.budgetMin

\* isNaN(maxBudget) || maxBudget < (updateData.budgetMin || job.budgetMin)
InvalidMax(budgetMax, budgetMin, job) ==
    budgetMax.kind = "NaN" \/ budgetMax.val < Floor(budgetMin, job)

\* updateData of updateJob: the fields of the request that are given
JobData(title, budgetMin, budgetMax) ==
    [title |-> IF TruthyStr(title) THEN Some(title) ELSE Null,
     budgetMin |-> IF budgetMin.kind = "undefined" THEN Null ELSE Some(budgetMin.val),
     budgetMax |-> IF budgetMax.kind = "undefined" THEN Null ELSE Some(budgetMax.val)]

\* prisma.job.update({ data: updateData })
UpdateJobRow(row, data) ==
    [row EXCEPT !.title = SetTo(@, data.title),
                !.budgetMin = SetTo(@, data.budgetMin),
                !.budgetMax = SetTo(@, data.budgetMax)]

\* the handler that stores the title before it validates the budget
updateJobTitleFirst(user, jobId, title, budgetMin, budgetMax) ==
    LET args == [userId |-> user.id, jobId |-> jobId, title |-> title,
                 budgetMin |-> budgetMin, budgetMax |-> budgetMax]
        job == FindJob(jobId)
        data == JobData(title, budgetMin, budgetMax)
        titled == [jobs EXCEPT ![jobId].title = SetTo(@, data.title)]
    IN  /\ Admit
        /\ UNCHANGED <<orders, applications, appliedJobsId, writes>>
        /\ IF ~TruthyNum(user.id)
           THEN Respond("updateJob", 401, args) /\ UNCHANGED <<jobs, req>>
           ELSE IF NotOwned(job, user.id)
           THEN Respond("updateJob", 404, args) /\ UNCHANGED <<jobs, req>>
           ELSE IF budgetMin.kind # "undefined" /\ InvalidMin(budgetMin)
           THEN /\ Respond("updateJob", 400, args)
                /\ jobs' = titled
                /\ UNCHANGED req
           ELSE IF budgetMax.kind # "undefined"
                   /\ InvalidMax(budgetMax, budgetMin, jobs[jobId])
           THEN /\ Respond("updateJob", 400, args)
                /\ jobs' = titled
                /\ UNCHANGED req
           ELSE /\ Suspend([op |-> "updateJob", userId |-> user.id,
                            jobId |-> jobId, data |-> data])
                /\ Pending("updateJob", args)
                /\ UNCHANGED jobs

\* updateJob up to its await on prisma.job.update
updateJob(user, jobId, title, budgetMin, budgetMax) ==
    LET args == [userId |-> user.id, jobId |-> jobId, title |-> title,
                 budgetMin |-> budgetMin, budgetMax |-> budgetMax]
        job == FindJob(jobId)
    IN  /\ Admit
        /\ UNCHANGED <<orders, jobVars, writes>>
        /\ IF ~TruthyNum(user.id)
           THEN Respond("updateJob", 401, args) /\ UNCHANGED req
           ELSE IF NotOwned(job, user.id)
           THEN Respond("updateJob", 404, args) /\ UNCHANGED req
           ELSE IF budgetMin.kind # "undefined" /\ InvalidMin(budgetMin)
           THEN Respond("updateJob", 400, args) /\ UNCHANGED req
           ELSE IF budgetMax.kind # "undefined"
                   /\ InvalidMax(budgetMax, budgetMin, jobs[jobId])
           THEN Respond("updateJob", 400, args) /\ UNCHANGED req
           ELSE /\ Suspend([op |-> "updateJob", userId |-> user.id,
                            jobId |-> jobId,
                            data |-> JobData(title, budgetMin, budgetMax)])
                /\ Pending("updateJob", args)

\* prisma.job.update of updateJob, which throws when the row is gone, and
\* the response
updateJobWrite(h) ==
    LET args == [userId |-> h.userId, jobId |-> h.jobId]
    IN  /\ h.op = "updateJob"
        /\ Resume(h)
        /\ UNCHANGED <<orders, applications, appliedJobsId>>
        /\ IF h.jobId \in DOMAIN jobs
           THEN /\ jobs' = [jobs EXCEPT ![h.jobId] = UpdateJobRow(@, h.data)]
                /\ writes' = writes + 1
                /\ Respond("updateJob", 200, args)
           ELSE /\ UNCHANGED <<jobs, writes>>
                /\ Respond("updateJob", 500, args)

\* deleteJob up to its await on prisma.job.delete
deleteJob(user, jobId) ==
    LET args == [userId |-> user.id, jobId |-> jobId]
    IN  /\ Admit
        /\ UNCHANGED <<orders, jobVars, writes>>
        /\ IF ~TruthyNum(user.id)
           THEN Respond("deleteJob", 401, args) /\ UNCHANGED req
           ELSE IF NotOwned(FindJob(jobId), user.id)
           THEN Respond("deleteJob", 404, args) /\ UNCHANGED req
           ELSE /\ Suspend([op |-> "deleteJob", userId |-> user.id,
                            jobId |-> jobId])
                /\ Pending("deleteJob", args)

\* prisma.job.delete, which throws when the row is gone, and the response
deleteJobWrite(h) ==
    LET args == [userId |-> h.userId, jobId |-> h.jobId]
    IN  /\ h.op = "deleteJob"
        /\ Resume(h)
        /\ UNCHANGED <<orders, applications, appliedJobsId>>
        /\ IF h.jobId \in DOMAIN jobs
           THEN /\ jobs' = [j \in DOMAIN jobs \ {h.jobId} |-> jobs[j]]
                /\ writes' = writes + 1
                /\ Respond("deleteJob", 200, args)
           ELSE /\ UNCHANGED <<jobs, writes>>
                /\ Respond("deleteJob", 500, args)

\* the update that writes the counter of the row the handler read, plus one
IncrementedFromRead(row, h) == [row EXCEPT !.proposals = h.proposals + 1]

\* data: { proposals: { increment: 1 } }, applied by the store to the row
Incremented(row, h) == [row EXCEPT !.proposals = @ + 1]

\* req.user && req.user.role === "FREELANCER" && req.user.id !== job.postedById
CountsAsView(user, job) == user.role = "FREELANCER" /\ user.id # job.postedById

\* getJob up to its await on prisma.job.update, or to its response when it
\* makes no update
getJob(user, jobId) ==
    LET args == [userId |-> user.id, role |-> user.role, jobId |-> jobId]
    IN  /\ Admit
        /\ UNCHANGED <<orders, jobVars, writes>>
        /\ IF jobId \notin DOMAIN jobs
           THEN Respond("getJob", 404, args) /\ UNCHANGED req
           ELSE IF CountsAsView(user, jobs[jobId])
           THEN /\ Suspend([op |-> "getJob", userId |-> user.id,
                            jobId |-> jobId,
                            proposals |-> jobs[jobId].proposals])
                /\ Pending("getJob", args)
           ELSE Respond("getJob", 200, args) /\ UNCHANGED req

\* prisma.job.update of getJob, which throws when the row is gone, and the
\* response
getJobWrite(h) ==
    LET args == [userId |-> h.userId, role |-> "FREELANCER", jobId |-> h.jobId]
    IN  /\ h.op = "getJob"
        /\ Resume(h)
        /\ UNCHANGED <<orders, applications, appliedJobsId>>
        /\ IF h.jobId \in DOMAIN jobs
           THEN /\ jobs' = [jobs EXCEPT ![h.jobId] = Incremented(@, h)]
                /\ writes' = writes + 1
                /\ Respond("getJob", 200, args)
           ELSE /\ UNCHANGED <<jobs, writes>>
                /\ Respond("getJob", 500, args)

\* req.files.videoFile: absent, a video, a file of another type
Files == {"none", "video", "other"}
\* req.body.budgetMin and budgetMax of createJob
Budgets == {5, 30}

\* the id the store gives the next job row: ids grow and are not used twice
NextJobId == Cardinality(DOMAIN InitialJobs) + writes + 1

\* createJob; uploadFileToS3 is declared nowhere, so the upload of a video
\* throws and the catch answers 500
createJob(user, file, title, budgetMin, budgetMax) ==
    LET args == [userId |-> user.id, file |-> file, title |-> title,
                 budgetMin |-> budgetMin, budgetMax |-> budgetMax]
    IN  /\ UNCHANGED <<orders, applications, appliedJobsId, req>>
        /\ IF ~TruthyNum(user.id)
           THEN Respond("createJob", 401, args) /\ UNCHANGED <<jobs, writes>>
           ELSE IF file = "other"
           THEN Respond("createJob", 400, args) /\ UNCHANGED <<jobs, writes>>
           ELSE IF file = "video"
           THEN Respond("createJob", 500, args) /\ UNCHANGED <<jobs, writes>>
           ELSE /\ writes < MaxJobs
                /\ jobs' = jobs @@ (NextJobId :>
                               NewJob(user.id, title, budgetMin, budgetMax))
                /\ writes' = writes + 1
                /\ Respond("createJob", 201, args)

\* getClientJobs: the jobs the actor posted
getClientJobs(user) ==
    /\ UNCHANGED <<orders, jobVars, writes, req>>
    /\ IF ~TruthyNum(user.id)
       THEN Respond("getClientJobs", 401, [userId |-> user.id, jobs |-> {}])
       ELSE Respond("getClientJobs", 200,
                [userId |-> user.id,
                 jobs |-> {j \in DOMAIN jobs : jobs[j].postedById = user.id}])

\* getAllJobs: a public list of the verified jobs; it reads no actor and
\* writes nothing
getAllJobs(user) ==
    /\ UNCHANGED <<orders, jobVars, writes, req>>
    /\ Respond("getAllJobs", 200, [userId |-> user.id])

\* checkApplicationStatus: it reads req.user.id with no check of req.user,
\* so a request with no actor throws and the catch answers 500
checkApplicationStatus(user, jobId) ==
    /\ UNCHANGED <<orders, jobVars, writes, req>>
    /\ IF user = Anonymous
       THEN Respond("checkApplicationStatus", 500,
                [userId |-> user.id, jobId |-> jobId, hasApplied |-> FALSE])
       ELSE Respond("checkApplicationStatus", 200,
                [userId |-> user.id, jobId |-> jobId,
                 hasApplied |-> ExistingApplication(user.id, jobId)])

----------------------------------------------------------------------------
(* order.controller.js: the reads.  Each names in the select of its query
   the variables firstname, lastname and email, which nothing declares:
   building the query throws and the catch answers 500. *)

getOrder(user, orderId) ==
    LET args == [userId |-> user.id, orderId |-> orderId]
    IN  /\ UNCHANGED <<orders, jobVars, writes, req>>
        /\ IF ~TruthyNum(user.id)
           THEN Respond("getOrder", 401, args)
           ELSE Respond("getOrder", 500, args)

getClientOrders(user) ==
    LET args == [userId |-> user.id]
    IN  /\ UNCHANGED <<orders, jobVars, writes, req>>
        /\ IF ~TruthyNum(user.id)
           THEN Respond("getClientOrders", 401, args)
           ELSE Respond("getClientOrders", 500, args)

\* the profile is looked up before the query is built
getFreelancerOrders(user) ==
    LET args == [userId |-> user.id]
    IN  /\ UNCHANGED <<orders, jobVars, writes, req>>
        /\ IF ~TruthyNum(user.id)
           THEN Respond("getFreelancerOrders", 401, args)
           ELSE IF ~HasProfile(user.id)
           THEN Respond("getFreelancerOrders", 404, args)
           ELSE Respond("getFreelancerOrders", 500, args)

----------------------------------------------------------------------------
(* Specifications *)

Init ==
    /\ orders \in {<< >>, << DeliveredOrder >>}
    /\ jobs = InitialJobs
    /\ applications = << >>
    /\ appliedJobsId = [u \in 1 .. 4 |-> << >>]
    /\ writes = 0
    /\ req = EmptyBag
    /\ resp = NoResp

\* the orders of gig 1: every request to createOrder
NextCreate ==
    \E user \in Actors, gigId \in GigIds, selectedPackage \in Packages,
       isUrgent \in Urgency :
       createOrder(user, gigId, selectedPackage, isUrgent)

\* the requests of the actors on one order: it is placed by user 1, or found
\* delivered, and any of the actors asks for any change of it
OrderRequests(actors) ==
    \/ /\ orders = << >>
       /\ \E user \in {u \in Users : u.id = 1} :
             createOrder(user, 1, "basic", Null)
    \/ \E user \in actors, orderId \in OrderIds, status \in StatusInputs,
          extensionReason \in Reasons, cancellationReason \in Reasons :
          updateOrderStatus(user, orderId, status, extensionReason,
                            cancellationReason)
    \/ \E user \in actors, orderId \in OrderIds,
          cancellationReason \in Reasons :
          cancelOrder(user, orderId, cancellationReason)

\* the writes of the handlers that wait on the store
OrderWrites ==
    \/ \E h \in Suspended : updateOrderStatusWrite(h)
    \/ \E h \in Suspended : cancelOrderWrite(h)

\* the life of one order, the requests of the authenticated users interleaved
\* at their awaits
NextOrder == OrderRequests(Users) \/ OrderWrites

\* the life of one order when each request, of a user or anonymous, is
\* answered before the next arrives
NextOrderSeq == (req = EmptyBag /\ OrderRequests(Actors)) \/ OrderWrites

\* the applications to the jobs: any requests of any actors
NextJob ==
    \/ \E user \in JobActors, jobId \in JobIds : applyJob(user, jobId)
    \/ \E h \in Suspended : applyJobCreate(h)
    \/ \E h \in Suspended : applyJobPush(h)

\* the rest of a suspended applyJob
ApplyWrites ==
    \/ \E h \in Suspended : applyJobCreate(h)
    \/ \E h \in Suspended : applyJobPush(h)

\* req.body.budgetMin and budgetMax of the requests that retitle a job:
\* absent, or one of them below what the code accepts
EditBudgets ==
    { <<Undefined, Undefined>>, <<Num(-1), Undefined>>, <<Undefined, Num(5)>> }

\* the jobs and their poster: any actor asks to retitle, delete or read any
\* job, the requests interleaved at their awaits
NextJobEdit ==
    \/ \E user \in Actors, jobId \in JobIds, title \in Titles,
          budget \in EditBudgets :
          updateJob(user, jobId, title, budget[1], budget[2])
    \/ \E h \in Suspended : updateJobWrite(h)
    \/ \E user \in Actors, jobId \in JobIds : deleteJob(user, jobId)
    \/ \E h \in Suspended : deleteJobWrite(h)
    \/ \E user \in Actors, jobId \in JobIds : getJob(user, jobId)
    \/ \E h \in Suspended : getJobWrite(h)

\* the requests to retitle, delete or read a job, up to their write
EditRequests ==
    \/ \E user \in Actors, jobId \in JobIds, title \in Titles,
          budget \in EditBudgets :
          updateJob(user, jobId, title, budget[1], budget[2])
    \/ \E user \in Actors, jobId \in JobIds : deleteJob(user, jobId)
    \/ \E user \in Actors, jobId \in JobIds : getJob(user, jobId)

\* the write of a suspended updateJob, deleteJob or getJob
EditWrites ==
    \/ \E h \in Suspended : updateJobWrite(h)
    \/ \E h \in Suspended : deleteJobWrite(h)
    \/ \E h \in Suspended : getJobWrite(h)

\* the budget of job 1: an authenticated user, its poster among them, asks
\* for a new budgetMin, budgetMax or both, each request answered before the
\* next
NextBudget ==
    \/ /\ req = EmptyBag
       /\ \E user \in Users, budgetMin \in BudgetInputs,
             budgetMax \in BudgetInputs :
             updateJob(user, 1, "", budgetMin, budgetMax)
    \/ \E h \in Suspended : updateJobWrite(h)

\* the reads of the orders, by any actor
NextOrderRead ==
    \/ \E user \in Actors, orderId \in OrderIds : getOrder(user, orderId)
    \/ \E user \in Actors : getClientOrders(user)
    \/ \E user \in JobActors : getFreelancerOrders(user)

\* the posting of jobs: any actor posts a job, lists the jobs they posted
\* or lists all jobs
NextPost ==
    \/ \E user \in Actors, file \in Files, title \in Titles \ {""},
          budgetMin \in Budgets, budgetMax \in Budgets :
          createJob(user, file, title, budgetMin, budgetMax)
    \/ \E user \in Actors : getClientJobs(user)
    \/ \E user \in Actors : getAllJobs(user)

\* the applications of the authenticated users when the second write of
\* applyJob may fail, and the reads of their status, interleaved at the
\* awaits
NextApplyFailing ==
    \/ \E user \in Users, jobId \in JobIds : applyJob(user, jobId)
    \/ \E h \in Suspended : applyJobCreate(h)
    \/ \E h \in Suspended : applyJobPush(h)
    \/ \E h \in Suspended : applyJobPushFails(h)
    \/ \E user \in Users, jobId \in JobIds :
          checkApplicationStatus(user, jobId)

\* the requests to apply and to read the status of an application
NextApply ==
    \/ \E user \in JobActors, jobId \in JobIds : applyJob(user, jobId)
    \/ \E user \in JobActors, jobId \in JobIds :
          checkApplicationStatus(user, jobId)

\* the handlers by the tables they work on
OrderOps ==
    {"createOrder", "updateOrderStatus", "cancelOrder", "getOrder",
     "getClientOrders", "getFreelancerOrders"}
ApplyOps == {"applyJob", "checkApplicationStatus"}
EditOps == {"updateJob", "deleteJob", "getJob"}
PostOps == {"createJob", "getClientJobs", "getAllJobs"}

\* the run has served no handler yet, or only handlers among ops
Serving(ops) ==
    \/ resp = NoResp /\ req = EmptyBag
    \/ resp.op \in ops
    \/ \E h \in Suspended : h.op \in ops

\* the order the requests after its placing are about: the one of user 1,
\* not urgent
TheOrder ==
    \/ orders = << >>
    \/ Len(orders) = 1 /\ orders[1].clientId = 1 /\ ~orders[1].isUrgent

\* every handler of the two controllers; a run stays with the handlers of
\* one group; orders are placed before anything else is asked of them, and
\* each request is answered before the next is taken
NextHandlers ==
    \/ Serving({"createOrder"}) /\ NextCreate
    \/ Serving(OrderOps) /\ TheOrder /\ (NextOrderSeq \/ NextOrderRead)
    \/ Serving(ApplyOps) /\ ((req = EmptyBag /\ NextApply) \/ ApplyWrites)
    \/ Serving(EditOps) /\ ((req = EmptyBag /\ EditRequests) \/ EditWrites)
    \/ Serving(PostOps) /\ NextPost

SpecCreate == Init /\ [][NextCreate]_vars
SpecOrder == Init /\ [][NextOrder]_vars
SpecOrderSeq == Init /\ [][NextOrderSeq]_vars
SpecJob == Init /\ [][NextJob]_vars
SpecApplyFailing == Init /\ [][NextApplyFailing]_vars
SpecBudget == Init /\ [][NextBudget]_vars
SpecJobEdit == Init /\ [][NextJobEdit]_vars
SpecHandlers == Init /\ [][NextHandlers]_vars

----------------------------------------------------------------------------
(* Properties *)

\* the transition table of the order workflow
TransitionTable ==
    { <<"PENDING", "ACCEPTED">>, <<"PENDING", "CANCELLED">>,
      <<"ACCEPTED", "IN_PROGRESS">>, <<"ACCEPTED", "CANCELLED">>,
      <<"IN_PROGRESS", "DELIVERED">>, <<"IN_PROGRESS", "CANCELLED">>,
      <<"DELIVERED", "COMPLETED">>, <<"DELIVERED", "DISPUTED">>,
      <<"DISPUTED", "COMPLETED">>, <<"DISPUTED", "CANCELLED">> }

Allowed(from, to) == <<from, to>> \in TransitionTable \/ from = "COMPLETED"

\* the user is the client of the order or the user behind its freelancer
Authorized(order, userId) ==
    /\ userId # 0
    /\ userId \in {order.clientId, freelancerProfile[order.freelancerId]}

\* in this step handler h suspended / resumed
Started(h) == CopiesIn(h, req') > CopiesIn(h, req)
Finished(h) == CopiesIn(h, req') < CopiesIn(h, req)

\* the step answered a request to op with an error
Refused(op) == resp'.op = op /\ resp'.code \notin {0, 200, 201}

LastStatus(order, k) ==
    order.statusHistory[Len(order.statusHistory) - k].status

(* C1: a request to updateOrderStatus by the client or the freelancer of the
   order, with a status, goes through to the update exactly when (current
   status, status) is in the transition table or the current status is
   COMPLETED, and the update sets that status and answers 200; otherwise the
   request is answered 400 and nothing is written. *)
C1_UpdateSucceedsIffAllowed ==
    [][ /\ \A h \in BagToSet(req') :
              (Started(h) /\ h.op = "updateOrderStatus")
              => Allowed(orders[h.orderId].status, h.data.status)
        /\ ( /\ Refused("updateOrderStatus")
             /\ resp'.args.orderId \in DOMAIN orders
             /\ Authorized(orders[resp'.args.orderId], resp'.args.userId)
             /\ resp'.args.status # "" )
           => /\ resp'.code = 400
              /\ ~Allowed(orders[resp'.args.orderId].status, resp'.args.status)
              /\ orders' = orders
              /\ req' = req
        /\ \A h \in BagToSet(req) :
              (Finished(h) /\ h.op = "updateOrderStatus")
              => /\ resp'.code = 200
                 /\ orders'[h.orderId].status = h.data.status
      ]_vars

\* an update of a COMPLETED order to PENDING was answered 200
C1_Witness ==
    /\ resp.op = "updateOrderStatus"
    /\ resp.code = 200
    /\ resp.args.status = "PENDING"
    /\ LastStatus(orders[resp.args.orderId], 1) = "COMPLETED"
    /\ LastStatus(orders[resp.args.orderId], 0) = "PENDING"

(* C2: the StatusHistory of every order starts with PENDING and each pair
   of consecutive statuses in it is a pair of the transition table. *)
C2_HistoryFollowsTable ==
    \A o \in DOMAIN orders :
        LET hist == orders[o].statusHistory
        IN  /\ hist[1].status = "PENDING"
            /\ \A i \in 1 .. Len(hist) - 1 :
                  <<hist[i].status, hist[i + 1].status>> \in TransitionTable

(* C3: CANCELLED is terminal: no step changes the status of an order that
   is CANCELLED. *)
C3_CancelledIsTerminal ==
    [][ \A o \in DOMAIN orders :
            orders[o].status = "CANCELLED" => orders'[o].status = "CANCELLED"
      ]_vars

(* C4: there is at most one Application row for each (freelancer, job)
   pair. *)
C4_OneApplicationPerPair ==
    \A i, k \in DOMAIN applications :
        applications[i] = applications[k] => i = k

\* an applyJob of the freelancer for the job has been answered 200
Applied(freelancerId, jobId) ==
    \E i \in DOMAIN appliedJobsId[freelancerId] :
        appliedJobsId[freelancerId][i] = jobId

(* C5: once an applyJob of a freelancer for a job has completed with
   success, every applyJob of that freelancer for that job that starts is
   answered 400, is not taken up to the writes, and changes neither the
   Application rows nor the applied-jobs lists. *)
C5_SecondApplyIsDuplicate ==
    [][ \A f \in DOMAIN appliedJobsId, j \in DOMAIN jobs :
            Applied(f, j) =>
                /\ \A h \in BagToSet(req') :
                      (Started(h) /\ h.op = "applyJob" /\ h.pc = "create")
                      => ~(h.freelancerId = f /\ h.jobId = j)
                /\ ( /\ resp'.op = "applyJob"
                     /\ resp'.code # 200
                     /\ resp'.args = [userId |-> f, jobId |-> j] )
                   => /\ resp'.code = 400
                      /\ applications' = applications
                      /\ appliedJobsId' = appliedJobsId
                      /\ req' = req
      ]_vars

\* a second applyJob was answered 400 with one row and one list entry
C5_Witness ==
    /\ resp.op = "applyJob"
    /\ resp.code = 400
    /\ Applied(resp.args.userId, resp.args.jobId)
    /\ Cardinality({i \in DOMAIN applications :
           applications[i] = [freelancerId |-> resp.args.userId,
                              jobId |-> resp.args.jobId]}) = 1
    /\ Len(appliedJobsId[resp.args.userId]) = 1

(* C6: a request to cancelOrder by the client or the freelancer of the
   order is answered 400, with nothing written, when the status of the order
   is not PENDING, ACCEPTED or IN_PROGRESS; otherwise it goes through to the
   update, which sets the status CANCELLED, the reason given ("Not
   specified" when none is), the cancellation date, appends the one entry
   {CANCELLED, changedBy the actor} to the StatusHistory, changes nothing
   else and answers 200. *)
C6_CancelOrder ==
    [][ /\ \A h \in BagToSet(req') :
              (Started(h) /\ h.op = "cancelOrder")
              => /\ orders[h.orderId].status \in {"PENDING", "ACCEPTED", "IN_PROGRESS"}
                 /\ h.data.cancellationReason =
                       IF resp'.args.cancellationReason = ""
                       THEN {"Not specified"}
                       ELSE {resp'.args.cancellationReason}
        /\ ( /\ Refused("cancelOrder")
             /\ resp'.args.orderId \in DOMAIN orders
             /\ Authorized(orders[resp'.args.orderId], resp'.args.userId) )
           => /\ resp'.code = 400
              /\ orders[resp'.args.orderId].status
                     \notin {"PENDING", "ACCEPTED", "IN_PROGRESS"}
              /\ orders' = orders
              /\ req' = req
        /\ \A h \in BagToSet(req) :
              (Finished(h) /\ h.op = "cancelOrder")
              => /\ resp'.code = 200
                 /\ orders' = [orders EXCEPT ![h.orderId] =
                        [@ EXCEPT !.status = "CANCELLED",
                                  !.cancellationReason = h.data.cancellationReason,
                                  !.cancellationDate = {Now},
                                  !.statusHistory =
                                      Append(@, [status |-> "CANCELLED",
                                                 changedBy |-> {h.userId}])]]
      ]_vars

\* a cancelOrder without a reason was answered 200
C6_Witness ==
    /\ resp.op = "cancelOrder"
    /\ resp.code = 200
    /\ orders[resp.args.orderId].status = "CANCELLED"
    /\ orders[resp.args.orderId].cancellationReason = {"Not specified"}
    /\ LastStatus(orders[resp.args.orderId], 0) = "CANCELLED"

\* the price of the package of a gig
PackagePrice(gigId, selectedPackage) == gigs[gigId].pricing[selectedPackage]

(* C7: the order created by a successful createOrder for a package of price
   p has totalPrice = 1.5 * p and priorityFee = 0.5 * p when isUrgent is
   true, totalPrice = p and no priorityFee when isUrgent is false or absent;
   so totalPrice = p + priorityFee, an absent fee counting 0. *)
C7_PriceAndFee ==
    (resp.op = "createOrder" /\ resp.code = 201) =>
        LET o == orders[Len(orders)]
            p == PackagePrice(resp.args.gigId, resp.args.selectedPackage)
            fee == IF o.priorityFee = Null THEN 0
                   ELSE CHOOSE f \in o.priorityFee : TRUE
        IN  /\ resp.args.isUrgent = {TRUE}
               => (2 * o.totalPrice = 3 * p /\ o.priorityFee # Null /\ 2 * fee = p)
            /\ resp.args.isUrgent # {TRUE}
               => (o.totalPrice = p /\ o.priorityFee = Null)
            /\ o.totalPrice = p + fee

\* an urgent order for the package at 100.00 was created
C7_Witness ==
    /\ resp.op = "createOrder"
    /\ resp.code = 201
    /\ resp.args.isUrgent = {TRUE}
    /\ orders[Len(orders)].totalPrice = 15000
    /\ orders[Len(orders)].priorityFee = {5000}

(* C8: for an authenticated actor and an existing ACTIVE gig, createOrder
   is answered 400 exactly when the selected package is missing or is no key
   of the pricing table of the gig, and for every key, whatever its price,
   the order is created PENDING with the one StatusHistory entry {PENDING};
   when the gig is absent or not ACTIVE no order is created. *)
C8_PackageKeyDecides ==
    (resp.op = "createOrder" /\ resp.args.userId # 0 /\ resp.args.gigId # 0) =>
        IF resp.args.gigId \in DOMAIN gigs /\ gigs[resp.args.gigId].status = "ACTIVE"
        THEN /\ resp.code = 400
                <=> resp.args.selectedPackage
                        \notin DOMAIN gigs[resp.args.gigId].pricing
             /\ resp.args.selectedPackage \in DOMAIN gigs[resp.args.gigId].pricing
                => /\ resp.code = 201
                   /\ orders[Len(orders)].status = "PENDING"
                   /\ orders[Len(orders)].statusHistory =
                          << [status |-> "PENDING", changedBy |-> Null] >>
        ELSE resp.code # 201

(* C9: the deliveryDeadline of an order never decreases: every step leaves
   it as it is or moves it forward by exactly 7 days. *)
C9_DeadlineNeverDecreases ==
    [][ \A o \in DOMAIN orders :
            orders'[o].deliveryDeadline \in
                {orders[o].deliveryDeadline,
                 orders[o].deliveryDeadline + ExtensionDays}
      ]_vars

(* C10: a request to updateOrderStatus or cancelOrder on an existing order
   by an authenticated actor who is neither its client nor the user behind
   its freelancer is answered 403, whatever the status asked for, and writes
   nothing. *)
C10_StrangerForbidden ==
    [][ ( /\ resp'.op \in {"updateOrderStatus", "cancelOrder"}
          /\ resp'.args.orderId \in DOMAIN orders
          /\ resp'.args.userId # 0
          /\ ~Authorized(orders[resp'.args.orderId], resp'.args.userId) )
        => /\ resp'.code = 403
           /\ orders' = orders
           /\ req' = req
      ]_vars

\* user 3, whose id is the profile id of the freelancer, was answered 403
C10_Witness ==
    /\ resp.op = "updateOrderStatus"
    /\ resp.code = 403
    /\ resp.args.userId = 3
    /\ resp.args.status = "CANCELLED"
    /\ orders[resp.args.orderId].freelancerId = 3

\* the step took a request to one of ops: it answered it or suspended its
\* handler, and resumed none
Took(ops) ==
    /\ resp'.op \in ops
    /\ \A h \in BagToSet(req) : ~Finished(h)

(* C11: a request to updateJob or deleteJob by an authenticated actor who
   is not the poster of the job is answered 404, as is one for a job that
   does not exist, and it neither changes nor deletes a job. *)
C11_NonOwnerNotFound ==
    [][ ( /\ Took({"updateJob", "deleteJob"})
          /\ resp'.args.userId # 0
          /\ \/ resp'.args.jobId \notin DOMAIN jobs
             \/ jobs[resp'.args.jobId].postedById # resp'.args.userId )
        => /\ resp'.code = 404
           /\ jobs' = jobs
           /\ req' = req
      ]_vars

\* user 1 asked to delete job 2, which user 2 posted, and was answered 404
C11_Witness ==
    /\ resp.op = "deleteJob"
    /\ resp.code = 404
    /\ resp.args.userId = 1
    /\ resp.args.jobId = 2
    /\ 2 \in DOMAIN jobs
    /\ jobs[2].postedById = 2

\* the tables of the store
Store == <<orders, jobs, applications, appliedJobsId>>

(* C12: a step that answers a request with a business-rule error (400, 401,
   403, 404) is the first step of its handler, which has written nothing,
   and it leaves the store as it was: the jobs, the applications, the
   applied-jobs lists, the orders and their status histories. *)
C12_NoWriteOnBusinessError ==
    [][ resp'.code \in {400, 401, 403, 404}
        => /\ Store' = Store
           /\ req' = req
      ]_vars

\* a second application for a pair was refused as a duplicate, and an
\* update of a job with a new title as having an invalid budget
C12_Witness ==
    \/ /\ resp.op = "applyJob"
       /\ resp.code = 400
       /\ Len(applications) = 1
    \/ /\ resp.op = "updateJob"
       /\ resp.code = 400
       /\ resp.args.title = "new"

\* the handlers that need an actor
ActorOps ==
    { "createJob", "updateJob", "deleteJob", "getClientJobs", "applyJob",
      "checkApplicationStatus", "createOrder", "updateOrderStatus",
      "getOrder", "getClientOrders", "getFreelancerOrders", "cancelOrder" }

\* C13: every handler that needs an actor answers 401 to a request with no
\* actor, never 500, and applyJob answers 403 to an actor whose role is not
\* FREELANCER
C13_NoActorIs401 ==
    (resp # NoResp /\ resp.op \in ActorOps) =>
        /\ resp.args.userId = Anonymous.id => resp.code = 401
        /\ \A user \in JobActors :
              ( /\ resp.op = "applyJob"
                /\ resp.args.userId = user.id
                /\ TruthyNum(user.id)
                /\ user.role # "FREELANCER" ) => resp.code = 403

(* C14: a request to getJob for a job that exists adds exactly 1 to the
   proposals of that job when the actor is a FREELANCER other than the
   poster, and leaves the job unchanged otherwise; the increment is applied
   to the stored value, so the handlers that finish, however interleaved,
   each add 1, and no other step changes the proposals of a job. *)
C14_ViewsCounted ==
    [][ /\ Took({"getJob"}) =>
            LET jobId == resp'.args.jobId
                counts == /\ jobId \in DOMAIN jobs
                          /\ resp'.args.role = "FREELANCER"
                          /\ resp'.args.userId # jobs[jobId].postedById
            IN  /\ jobs' = jobs
                /\ (resp'.code = 0) <=> counts
                /\ (jobId \in DOMAIN jobs /\ ~counts) => resp'.code = 200
        /\ \A h \in Suspended :
              (h.op = "getJob" /\ Finished(h) /\ h.jobId \in DOMAIN jobs) =>
                  /\ jobs' = [jobs EXCEPT ![h.jobId].proposals = @ + 1]
                  /\ resp'.code = 200
        /\ \A j \in DOMAIN jobs \cap DOMAIN jobs' :
              jobs'[j].proposals # jobs[j].proposals =>
                  \E h \in Suspended :
                      h.op = "getJob" /\ h.jobId = j /\ Finished(h)
      ]_vars

\* a view of job 1 was counted while another handler, which had read the
\* job before, waits to count its own
C14_Witness ==
    /\ resp.op = "getJob"
    /\ resp.code = 200
    /\ resp.args.jobId = 1
    /\ 1 \in DOMAIN jobs
    /\ jobs[1].proposals = 1
    /\ \E h \in Suspended :
          h.op = "getJob" /\ h.jobId = 1 /\ h.proposals = 0

\* the handler a cancelOrder suspends when it passes its checks, and the one
\* an updateOrderStatus to CANCELLED suspends
CancelHandler(user, orderId, cancellationReason) ==
    [op |-> "cancelOrder", userId |-> user.id, orderId |-> orderId,
     data |-> CancelData(cancellationReason)]
UpdateHandler(user, orderId, extensionReason, cancellationReason) ==
    [op |-> "updateOrderStatus", userId |-> user.id, orderId |-> orderId,
     data |-> IF orderId \in 1 .. Len(orders)
              THEN UpdateData(orders[orderId], "CANCELLED", extensionReason,
                              cancellationReason)
              ELSE NoData("CANCELLED")]

\* the request passes the checks of the handler and reaches its write
CancelPasses(user, orderId, cancellationReason) ==
    ENABLED ( /\ cancelOrder(user, orderId, cancellationReason)
              /\ req' = req (+) SetToBag(
                     {CancelHandler(user, orderId, cancellationReason)}) )
UpdatePasses(user, orderId, extensionReason, cancellationReason) ==
    ENABLED ( /\ updateOrderStatus(user, orderId, "CANCELLED",
                                   extensionReason, cancellationReason)
              /\ req' = req (+) SetToBag(
                     {UpdateHandler(user, orderId, extensionReason,
                                    cancellationReason)}) )

\* the order a cancellation leaves: CANCELLED, its reason and date, one more
\* history entry, and the other fields as they were
CancelledOrder(order, h) ==
    [order EXCEPT
        !.status = "CANCELLED",
        !.cancellationReason = h.data.cancellationReason,
        !.cancellationDate = Some(Now),
        !.statusHistory = Append(@, [status |-> "CANCELLED",
                                     changedBy |-> Some(h.userId)])]

\* the write of a cancellation, by either handler, leaves the cancelled order
\* and answers 200
CancelWrites ==
    \A h \in Suspended :
        (Finished(h) /\ h.data.status = "CANCELLED") =>
            /\ orders' = [orders EXCEPT
                              ![h.orderId] = CancelledOrder(@, h)]
            /\ resp'.code = 200

(* C15 as stated: for the same order, actor and cancellation reason,
   cancelOrder passes its checks exactly when updateOrderStatus to CANCELLED
   passes its own. *)
C15_CancelPathsAgree ==
    Admit =>
        \A user \in Actors, orderId \in OrderIds,
           extensionReason \in Reasons, cancellationReason \in Reasons :
            CancelPasses(user, orderId, cancellationReason)
                <=> UpdatePasses(user, orderId, extensionReason,
                                 cancellationReason)

(* C15, amended: for the same order, actor and cancellation reason, whenever
   cancelOrder passes its checks updateOrderStatus to CANCELLED passes its
   own, with the same data and acting user for the write; and the write of
   either leaves the same order: status CANCELLED, the reason or "Not
   specified", one appended history entry {CANCELLED, actor}, every other
   field unchanged. *)
C15_CancelIsNarrower ==
    /\ [](Admit =>
            \A user \in Actors, orderId \in OrderIds,
               extensionReason \in Reasons, cancellationReason \in Reasons :
                CancelPasses(user, orderId, cancellationReason) =>
                    /\ UpdatePasses(user, orderId, extensionReason,
                                    cancellationReason)
                    /\ CancelHandler(user, orderId, cancellationReason).data
                         = UpdateHandler(user, orderId, extensionReason,
                                         cancellationReason).data
                    /\ CancelHandler(user, orderId, cancellationReason)
                         .data.cancellationReason
                         = Some(ReasonOrDefault(cancellationReason)))
    /\ [][CancelWrites]_vars

\* an order was cancelled by cancelOrder with no reason given
C15_Witness ==
    /\ resp.op = "cancelOrder"
    /\ resp.code = 200
    /\ orders[resp.args.orderId].status = "CANCELLED"
    /\ orders[resp.args.orderId].cancellationReason = Some("Not specified")

\* the order the frame of C16 allows after a successful updateOrderStatus
Framed(order, userId, status, extensionReason, cancellationReason) ==
    LET moved == [order EXCEPT
                     !.status = status,
                     !.statusHistory = Append(@, [status |-> status,
                                                  changedBy |-> Some(userId)])]
    IN  CASE status = "CANCELLED" ->
                [moved EXCEPT
                    !.cancellationReason =
                        Some(IF cancellationReason = "" THEN "Not specified"
                                                        ELSE cancellationReason),
                    !.cancellationDate = Some(Now)]
          [] status = "COMPLETED" ->
                [moved EXCEPT !.completedAt = Some(Now)]
          [] OTHER ->
                IF extensionReason # ""
                THEN [moved EXCEPT
                         !.deliveryExtensions = @ + 1,
                         !.extensionReason = Some(extensionReason),
                         !.deliveryDeadline = @ + 7]
                ELSE moved

\* the handler an updateOrderStatus suspends when it passes its checks
StatusHandler(user, orderId, status, extensionReason, cancellationReason) ==
    [op |-> "updateOrderStatus", userId |-> user.id, orderId |-> orderId,
     data |-> UpdateData(orders[orderId], status, extensionReason,
                         cancellationReason)]

\* the write of updateOrderStatus merges the data of its handler into the row
\* and answers 200
StatusWrites ==
    \A h \in Suspended :
        (Finished(h) /\ h.op = "updateOrderStatus") =>
            /\ orders' = [orders EXCEPT
                              ![h.orderId] = Update(@, h.data, h.userId)]
            /\ resp'.code = 200

(* C16: an updateOrderStatus that passes its checks changes, besides status
   and history, only the fields of its target: CANCELLED sets the
   cancellation reason (default "Not specified") and date; COMPLETED sets
   completedAt; any other status, exactly when an extensionReason is given,
   adds 1 to deliveryExtensions, stores the reason and moves the deadline by
   7 days; an extensionReason with CANCELLED or COMPLETED changes neither
   deliveryExtensions nor deliveryDeadline. *)
C16_UpdateFrame ==
    /\ [](Admit =>
            \A user \in Actors, orderId \in 1 .. Len(orders),
               status \in StatusInputs,
               extensionReason \in Reasons, cancellationReason \in Reasons :
                LET h == StatusHandler(user, orderId, status, extensionReason,
                                       cancellationReason)
                IN  ENABLED ( /\ updateOrderStatus(user, orderId, status,
                                     extensionReason, cancellationReason)
                              /\ req' = req (+) SetToBag({h}) )
                    => Update(orders[orderId], h.data, h.userId)
                         = Framed(orders[orderId], user.id, status,
                                  extensionReason, cancellationReason))
    /\ [][StatusWrites]_vars

\* an order was moved on with an extension: one more extension, the reason,
\* and the deadline of the delivered order (3 days) 7 days later
C16_Witness ==
    /\ resp.op = "updateOrderStatus"
    /\ resp.code = 200
    /\ orders[resp.args.orderId].deliveryExtensions = 1
    /\ orders[resp.args.orderId].extensionReason = Some("reason")
    /\ orders[resp.args.orderId].deliveryDeadline = 10

\* the statusHistory of order i before and after the step
History(i) == orders[i].statusHistory
HistoryAfter(i) == orders'[i].statusHistory

(* C17: the statusHistory of an order starts with the one entry PENDING of
   its creation; every updateOrderStatus or cancelOrder that succeeds appends
   exactly one entry, with the new status and the acting user; a step that
   answers with an error, or that only takes a request, leaves every history
   as it is; no entry is ever changed or removed. The history thus counts 1
   plus the successful requests on the order. *)
C17_HistoryCounts ==
    [][ /\ Len(orders') >= Len(orders)
        /\ \A i \in 1 .. Len(orders') :
              i > Len(orders) =>
                  HistoryAfter(i) = << [status |-> "PENDING",
                                        changedBy |-> Null] >>
        /\ \A h \in Suspended :
              Finished(h) =>
                  /\ resp'.code = 200
                  /\ orders'[h.orderId].status = h.data.status
                  /\ HistoryAfter(h.orderId)
                       = Append(History(h.orderId),
                                [status |-> h.data.status,
                                 changedBy |-> Some(h.userId)])
        /\ \A i \in 1 .. Len(orders) :
              \/ HistoryAfter(i) = History(i)
              \/ /\ resp'.code = 200
                 /\ resp'.op \in {"updateOrderStatus", "cancelOrder"}
                 /\ \E h \in Suspended : Finished(h) /\ h.orderId = i
        /\ resp'.code \notin {200, 201} => orders' = orders
      ]_vars

\* the order placed by user 1 was accepted by its freelancer and then
\* cancelled by its client through cancelOrder: three entries
C17_Witness ==
    /\ resp.op = "cancelOrder"
    /\ resp.code = 200
    /\ Len(orders) = 1
    /\ orders[1].statusHistory
         = << [status |-> "PENDING", changedBy |-> Null],
              [status |-> "ACCEPTED", changedBy |-> Some(2)],
              [status |-> "CANCELLED", changedBy |-> Some(1)] >>

\* the Application of the freelancer for the job exists, the job is not in
\* the applied-jobs list, and no applyJob of the pair is under way: the state
\* a failed second write leaves
HalfApplied(apps, lists, handlers, f, j) ==
    /\ \E i \in DOMAIN apps : apps[i] = [freelancerId |-> f, jobId |-> j]
    /\ \A i \in DOMAIN lists[f] : lists[f][i] # j
    /\ \A h \in BagToSet(handlers) : ~(h.freelancerId = f /\ h.jobId = j)

(* C18: when the second write of applyJob fails, the request is answered
   500, the Application row stays and the applied-jobs list is left without
   the job; from then on every applyJob of the pair is answered 400 and
   writes nothing, checkApplicationStatus reports hasApplied = true, and the
   list never comes to hold the job. *)
C18_HalfAppliedStays ==
    [][ /\ \A h \in Suspended :
              (Finished(h) /\ h.pc = "push" /\ resp'.code # 200) =>
                  /\ resp'.code = 500
                  /\ applications' = applications
                  /\ appliedJobsId' = appliedJobsId
                  /\ ExistingApplication(h.freelancerId, h.jobId)
        /\ \A f \in DOMAIN appliedJobsId, j \in DOMAIN jobs :
              HalfApplied(applications, appliedJobsId, req, f, j) =>
                  /\ HalfApplied(applications', appliedJobsId', req', f, j)
                  /\ ( /\ resp'.op = "applyJob"
                       /\ resp'.args = [userId |-> f, jobId |-> j] )
                     => resp'.code = 400
                  /\ ( /\ resp'.op = "checkApplicationStatus"
                       /\ resp'.args.userId = f
                       /\ resp'.args.jobId = j )
                     => (resp'.code = 200 /\ resp'.args.hasApplied)
      ]_vars

\* after a failed second write for freelancer 2 and job 1, a new applyJob of
\* the pair was answered 400
C18_Witness ==
    /\ resp.op = "applyJob"
    /\ resp.code = 400
    /\ resp.args = [userId |-> 2, jobId |-> 1]
    /\ HalfApplied(applications, appliedJobsId, req, 2, 1)

\* the budget fields of a request are valid as C19 reads the rule: a
\* budgetMin that is sent is a number of at least 0; a budgetMax that is sent
\* is a number of at least the budgetMin sent with it, or the stored one
ValidBudget(budgetMin, budgetMax, job) ==
    /\ budgetMin.kind # "undefined" =>
           (budgetMin.kind = "number" /\ budgetMin.val >= 0)
    /\ budgetMax.kind # "undefined" =>
           /\ budgetMax.kind = "number"
           /\ budgetMax.val >= IF budgetMin.kind = "number"
                                THEN budgetMin.val
                                ELSE job.budgetMin

(* C19: a request of the poster to updateJob passes the budget validation
   (it is not answered 400) exactly when its budget fields are valid, for
   every budgetMin sent, 0 included. *)
C19_BudgetValidation ==
    [][ ( /\ Took({"updateJob"})
          /\ resp'.args.jobId \in DOMAIN jobs
          /\ resp'.args.userId = jobs[resp'.args.jobId].postedById )
        => ( resp'.code # 400
               <=> ValidBudget(resp'.args.budgetMin, resp'.args.budgetMax,
                               jobs[resp'.args.jobId]) )
      ]_vars

\* the deadline createOrder gave the order
DeadlineAtCreation(order) == Now + gigs[order.gigId].deliveryTime

(* C20: in every state the deliveryDeadline of an order is the deadline of
   its creation plus 7 days for each of its deliveryExtensions, also when
   updates of the order interleave. *)
C20_DeadlineMatchesExtensions ==
    \A o \in DOMAIN orders :
        orders[o].deliveryDeadline
            = DeadlineAtCreation(orders[o])
                + ExtensionDays * orders[o].deliveryExtensions

(* C21: in every state an order has completedAt set exactly when its status
   is COMPLETED, and cancellationDate set exactly when its status is
   CANCELLED. *)
C21_StampsMatchStatus ==
    \A o \in DOMAIN orders :
        /\ (orders[o].completedAt # Null) <=> (orders[o].status = "COMPLETED")
        /\ (orders[o].cancellationDate # Null)
               <=> (orders[o].status = "CANCELLED")

(* C22: the stored budget of a job that starts with budgetMin <= budgetMax
   keeps budgetMin <= budgetMax after any sequence of successful updateJob
   requests of its poster. *)
C22_BudgetStaysOrdered ==
    \A j \in DOMAIN jobs : jobs[j].budgetMin <= jobs[j].budgetMax

====
